---- MODULE Spec2Model ----
(***************************************************************************)
(* Impedance check for the OpenBCI Cyton board.                            *)
(*                                                                         *)
(* Two programs are modelled over the same board:                          *)
(*   - the class ImpedanceCheck of cyton_impedance_check.py  (Spec; on a   *)
(*     prepared board SpecMeasure, its tracker alone SpecTracker, its      *)
(*     impedance formula alone SpecCalc)                                   *)
(*   - the script check_impedance(channels) of                             *)
(*     cyton_impedance_check.py.py                           (SpecScript)  *)
(* The board (BrainFlow session + Cyton firmware) is the environment: it   *)
(* holds per-channel settings and lead-off switches, a stream and a sample *)
(* buffer.  Commands are sequences of one-character strings, rendered as   *)
(* the f-strings render them and parsed by the board character by          *)
(* character.                                                              *)
(***************************************************************************)
EXTENDS Integers, Sequences, FiniteSets, TLC

VARIABLES
    ch_cfg,        \* self._ch_cfg: channel -> configuration
    ch_last_cfg,   \* self._ch_last_cfg: channel -> <<>> (None) or <<cfg>>
    board,         \* self.board / the script's board: "None" or "BoardShim"
    dev,           \* the device and its session (environment)
    pc,            \* position of the running call ("idle" between calls)
    ch,            \* argument ch of the running call / the loop variable
    data,          \* samples drained by the last get_board_data()
    z,             \* z_ohm / z_kohm computed in the running cycle
    uVrms,         \* the RMS estimate the running call computed last
    channels,      \* the script's argument channels
    idx,           \* the script's position in channels
    z_list,        \* the script's result list
    calls,         \* number of public calls made so far
    call,          \* observation: the last public call and how it ended
    hist,          \* observation: the last two change_leadoff executions
    sent           \* observation: commands sent in the current call/run

vars == <<ch_cfg, ch_last_cfg, board, dev, pc, ch, data, z, uVrms, channels,
          idx, z_list, calls, call, hist, sent>>

-----------------------------------------------------------------------------
(* Bounds *)

MaxCalls == 3          \* public calls per behaviour of the class
MaxListLen == 2        \* length of the enumerated channel lists of the script
MaxRms == 10           \* the finite non-zero RMS estimate [uV] delivered

(* Program constants *)

NumChannels == 8       \* range(8), CABLE_COLORS, the Cyton's eight channels
FilterOrder == 4       \* iirfilter(4, ...)
SERIES_R == 2200       \* [ohm]
I_DRIVE_nA == 6        \* 6.0e-9 A

Channels == 1..NumChannels

\* filtfilt's default padlen, 3 * max(len(a), len(b)); a band-pass of order N
\* has 2N + 1 coefficients.  filtfilt raises ValueError unless len(x) > padlen.
PadLen == 3 * (2 * FilterOrder + 1)

STREAM_CFG_DEFAULT ==
    [gain |-> 6, input_type |-> 0, bias |-> 1, srb2 |-> 1, srb1 |-> 0]

IMP_CFG ==
    [gain |-> 0, input_type |-> 0, bias |-> 1, srb2 |-> 0, srb1 |-> 0]

None == << >>

-----------------------------------------------------------------------------
(* Rendering: str() of an integer as a sequence of characters *)

DigitChars == <<"0", "1", "2", "3", "4", "5", "6", "7", "8", "9">>

RECURSIVE StrNat(_)
StrNat(n) ==
    IF n < 10 THEN <<DigitChars[n + 1]>>
    ELSE StrNat(n \div 10) \o <<DigitChars[(n % 10) + 1]>>

Str(n) == IF n < 0 THEN <<"-">> \o StrNat(-n) ELSE StrNat(n)

\* f"x{ch}{power_down}{gain}{input_type}{bias}{srb2}{srb1}X"
build_channel_settings_cmd(c, gain, input_type, bias, srb2, srb1, power_down) ==
    <<"x">> \o Str(c) \o Str(power_down) \o Str(gain) \o Str(input_type)
            \o Str(bias) \o Str(srb2) \o Str(srb1) \o <<"X">>

\* a rendering that drives the P input when is_n is set
build_impedance_cmd_p_side(c, active, is_n) ==
    LET p == IF active /\ is_n THEN "1" ELSE "0"
        n == IF active /\ ~is_n THEN "1" ELSE "0"
    IN  <<"z">> \o Str(c) \o <<p, n>> \o <<"Z">>

\* f"z{ch}{p}{n}Z" with p, n from active and is_n
build_impedance_cmd(c, active, is_n) ==
    LET p == IF active /\ ~is_n THEN "1" ELSE "0"
        n == IF active /\ is_n THEN "1" ELSE "0"
    IN  <<"z">> \o Str(c) \o <<p, n>> \o <<"Z">>

\* the script's set_ads_to_impedance_on: "x{ch}0" "0" "0" "1" "0" "0" "X"
ads_cmd(c) == <<"x">> \o Str(c) \o <<"0", "0", "0", "1", "0", "0", "X">>

\* the script's send_leadoff: f"z{ch}{p_apply}{n_apply}Z"
leadoff_cmd(c, p_apply, n_apply) ==
    <<"z">> \o Str(c) \o Str(p_apply) \o Str(n_apply) \o <<"Z">>

reset_cmd == <<"d">>

-----------------------------------------------------------------------------
(* The board: what the Cyton does with the characters it receives *)

Digits == {DigitChars[i] : i \in 1..10}

CharVal(c) == CHOOSE v \in 0..9 : DigitChars[v + 1] = c

\* the settings every channel has after the reset command 'd'
DevDefaultCfg ==
    [power_down |-> 0, gain |-> 6, input_type |-> 0,
     bias |-> 1, srb2 |-> 1, srb1 |-> 0]

LeadOffOff == [p |-> 0, n |-> 0]

\* x (CHANNEL, POWER_DOWN, GAIN, INPUT, BIAS, SRB2, SRB1) X
IsChannelFrame(cmd) ==
    /\ Len(cmd) >= 9
    /\ cmd[1] = "x" /\ cmd[9] = "X"
    /\ \A i \in 2..8 : cmd[i] \in Digits
    /\ CharVal(cmd[2]) \in Channels
    /\ CharVal(cmd[3]) \in 0..1
    /\ CharVal(cmd[4]) \in 0..6
    /\ CharVal(cmd[5]) \in 0..7
    /\ \A i \in 6..8 : CharVal(cmd[i]) \in 0..1

\* z (CHANNEL, P, N) Z
IsLeadOffFrame(cmd) ==
    /\ Len(cmd) >= 5
    /\ cmd[1] = "z" /\ cmd[5] = "Z"
    /\ \A i \in 2..4 : cmd[i] \in Digits
    /\ CharVal(cmd[2]) \in Channels
    /\ \A i \in 3..4 : CharVal(cmd[i]) \in 0..1

\* The device consumes the text frame by frame; a frame it cannot parse
\* (for instance one naming channel 0 or 9) is dropped with what follows it.
RECURSIVE DevApply(_, _)
DevApply(d, cmd) ==
    IF cmd = << >> THEN d
    ELSE IF Head(cmd) = "d" THEN
        DevApply([d EXCEPT !.cfg = [c \in Channels |-> DevDefaultCfg],
                           !.lo = [c \in Channels |-> LeadOffOff]],
                 Tail(cmd))
    ELSE IF IsChannelFrame(cmd) THEN
        DevApply([d EXCEPT !.cfg[CharVal(cmd[2])] =
                     [power_down |-> CharVal(cmd[3]), gain |-> CharVal(cmd[4]),
                      input_type |-> CharVal(cmd[5]), bias |-> CharVal(cmd[6]),
                      srb2 |-> CharVal(cmd[7]), srb1 |-> CharVal(cmd[8])]],
                 SubSeq(cmd, 10, Len(cmd)))
    ELSE IF IsLeadOffFrame(cmd) THEN
        DevApply([d EXCEPT !.lo[CharVal(cmd[2])] =
                     [p |-> CharVal(cmd[3]), n |-> CharVal(cmd[4])]],
                 SubSeq(cmd, 6, Len(cmd)))
    ELSE d

\* channels whose lead-off current is switched on at the device
ActiveLeadOff(d) == {c \in Channels : d.lo[c].p = 1 \/ d.lo[c].n = 1}

\* the device's settings of a channel, as the tracker's five fields
TrackerView(dc) ==
    [gain |-> dc.gain, input_type |-> dc.input_type, bias |-> dc.bias,
     srb2 |-> dc.srb2, srb1 |-> dc.srb1]

EmptyBuf == [n |-> 0, tags |-> {}]

MaxBuf == PadLen + 2

\* k samples arrive while the program sleeps; each batch is tagged with the
\* set of channels in lead-off while it was acquired
Acquire(d, k) ==
    IF d.streaming /\ k > 0
    THEN [d EXCEPT !.buf = [n |-> IF d.buf.n + k > MaxBuf THEN MaxBuf
                                  ELSE d.buf.n + k,
                            tags |-> d.buf.tags \cup {ActiveLeadOff(d)}]]
    ELSE d

DevInit ==
    [prepared |-> FALSE, streaming |-> FALSE,
     cfg |-> [c \in Channels |-> DevDefaultCfg],
     lo |-> [c \in Channels |-> LeadOffOff],
     buf |-> EmptyBuf]

(* BrainFlow calls.  o is what the transport does with this call:          *)
(*   "ok"     the call succeeds                                            *)
(*   "decode" the device executes the command, decoding its answer fails   *)
(*   "fail"   the call fails and has no effect                             *)
ConfigOutcomes == {"ok", "decode", "fail"}
CallOutcomes == {"ok", "fail"}

\* exception raised by b.config_board(cmd), "none" if it returns
ConfigExc(b, d, o) ==
    IF b = "None" THEN "AttributeError"
    ELSE IF ~d.prepared \/ o = "fail" THEN "BrainFlowError"
    ELSE IF o = "decode" THEN "UnicodeDecodeError"
    ELSE "none"

\* the device after b.config_board(cmd)
ConfigDev(b, d, cmd, o) ==
    IF ConfigExc(b, d, o) \in {"none", "UnicodeDecodeError"}
    THEN DevApply(d, cmd) ELSE d

\* prepare_session(): fails on an already prepared session
PrepareExc(b, d, o) ==
    IF b = "None" THEN "AttributeError"
    ELSE IF d.prepared \/ o = "fail" THEN "BrainFlowError" ELSE "none"

\* start_stream(): fails without a session or with the stream already running
StartExc(b, d, o) ==
    IF b = "None" THEN "AttributeError"
    ELSE IF ~d.prepared \/ d.streaming \/ o = "fail" THEN "BrainFlowError"
    ELSE "none"

\* stop_stream(): fails unless the stream is running
StopExc(b, d, o) ==
    IF b = "None" THEN "AttributeError"
    ELSE IF ~d.prepared \/ ~d.streaming \/ o = "fail" THEN "BrainFlowError"
    ELSE "none"

\* get_board_data(): drains the buffer
GetExc(b, d, o) ==
    IF b = "None" THEN "AttributeError"
    ELSE IF ~d.prepared \/ o = "fail" THEN "BrainFlowError" ELSE "none"

\* release_session(): stops the stream and closes the session
ReleaseExc(b, d, o) ==
    IF b = "None" THEN "AttributeError"
    ELSE IF ~d.prepared \/ o = "fail" THEN "BrainFlowError" ELSE "none"

ReleaseDev(b, d, o) ==
    IF ReleaseExc(b, d, o) = "none"
    THEN [d EXCEPT !.prepared = FALSE, !.streaming = FALSE, !.buf = EmptyBuf]
    ELSE d

-----------------------------------------------------------------------------
(* Signal processing and the impedance formula *)

\* a non-finite float (NaN, inf); every finite value modelled is >= 0
NaN == -1

\* a local variable no statement has assigned yet
Unbound == -2

\* RMS estimates [uV] the recorded signal may yield: non-finite, zero (the
\* formula floors it to 0) and a value that gives a positive impedance
RmsValues == {NaN, 0, MaxRms}

\* filtfilt(b, a, x) raises ValueError unless len(x) > padlen
bandpass_raises(n) == n <= PadLen

\* the formula without its floor at 0
calc_impedance_unfloored(v) ==
    (1414214 * v) \div I_DRIVE_nA - SERIES_R * 1000

\* Z = sqrt(2) * Vrms / I_drive - R_series, floored at 0, in milliohm:
\* sqrt(2) * v * 1e-6 / 6e-9 ohm = 1414214 * v / 6 milliohm
calc_impedance_from_vrms(v) ==
    LET Zm == (1414214 * v) \div I_DRIVE_nA - SERIES_R * 1000
    IN  IF Zm > 0 THEN Zm ELSE 0

\* a conversion that applies the formula to every estimate, finite or not
z_of_rms_unguarded(v) == calc_impedance_from_vrms(v)

\* calc_impedance_from_vrms(uVrms) if np.isfinite(uVrms) else float('nan')
z_of_rms(v) == IF v # NaN THEN calc_impedance_from_vrms(v) ELSE NaN

-----------------------------------------------------------------------------
(* The channel state tracker of ImpedanceCheck *)

\* Python's list indexing of an 8-element list by i: the 1-based position
\* it selects, 0 when it raises IndexError (negative i counts from the end)
PyIndex(i) ==
    IF i \in 0..(NumChannels - 1) THEN i + 1
    ELSE IF i \in (-NumChannels)..(-1) THEN i + NumChannels + 1
    ELSE 0

\* an enable that switches every channel to IMP_CFG
TrackerEnableAll(cfg, last, k) ==
    [cfg |-> [c \in Channels |-> IMP_CFG],
     last |-> [last EXCEPT ![k] = <<cfg[k]>>]]

\* is_on: save the current configuration, switch to IMP_CFG
TrackerEnable(cfg, last, k) ==
    [cfg |-> [cfg EXCEPT ![k] = IMP_CFG],
     last |-> [last EXCEPT ![k] = <<cfg[k]>>]]

\* a disable that restores the current configuration and forgets to clear
\* the saved slot
TrackerDisableKeepsSaved(cfg, last, k) ==
    IF last[k] # None
    THEN [cfg |-> [cfg EXCEPT ![k] = last[k][1]], last |-> last]
    ELSE [cfg |-> [cfg EXCEPT ![k] = STREAM_CFG_DEFAULT], last |-> last]

\* a disable without the fallback to the streaming default
TrackerDisableNoFallback(cfg, last, k) ==
    IF last[k] # None
    THEN [cfg |-> [cfg EXCEPT ![k] = last[k][1]],
          last |-> [last EXCEPT ![k] = None]]
    ELSE [cfg |-> cfg, last |-> last]

\* not is_on: restore the saved configuration, or fall back to the default
TrackerDisable(cfg, last, k) ==
    IF last[k] # None
    THEN [cfg |-> [cfg EXCEPT ![k] = last[k][1]],
          last |-> [last EXCEPT ![k] = None]]
    ELSE [cfg |-> [cfg EXCEPT ![k] = STREAM_CFG_DEFAULT], last |-> last]

\* the text change_leadoff sends: x_cmd + z_cmd, is_n = True
leadoff_text(c, cf, is_on) ==
    build_channel_settings_cmd(c, cf.gain, cf.input_type, cf.bias,
                               cf.srb2, cf.srb1, 0)
        \o build_impedance_cmd(c, is_on, TRUE)

\* exceptions change_leadoff lets through
Propagates(exc) == exc \notin {"none", "UnicodeDecodeError"}

\* change_leadoff(c, is_on) with transport outcome o: the tracker and the
\* device after it, the text it sent and the exception it raises
change_leadoff(c, is_on, o) ==
    LET k == PyIndex(c - 1) IN
    IF k = 0
    THEN [cfg |-> ch_cfg, last |-> ch_last_cfg, dev |-> dev,
          text |-> << >>, exc |-> "IndexError"]
    ELSE
      LET t == IF is_on THEN TrackerEnable(ch_cfg, ch_last_cfg, k)
                        ELSE TrackerDisable(ch_cfg, ch_last_cfg, k)
          cmd == leadoff_text(c, t.cfg[k], is_on)
          exc == ConfigExc(board, dev, o)
          d1 == ConfigDev(board, dev, cmd, o)
      IN  [cfg |-> t.cfg, last |-> t.last,
           dev |-> IF Propagates(exc) THEN d1 ELSE Acquire(d1, 1),
           text |-> IF board = "None" THEN << >> ELSE cmd,
           exc |-> IF Propagates(exc) THEN exc ELSE "none"]

\* the observation of one change_leadoff execution
HistEntry(c, is_on, r) ==
    [op |-> IF is_on THEN "enable" ELSE "disable", arg |-> c,
     cfg |-> ch_cfg, last |-> ch_last_cfg, rejected |-> r.exc = "IndexError"]

PushHist(e) == IF Len(hist) < 2 THEN Append(hist, e) ELSE <<hist[2], e>>

Log(text) == IF text = << >> THEN sent ELSE Append(sent, text)

\* reset_to_defaults(board) of the class: every exception is swallowed
reset_to_defaults(b, d, o) ==
    IF ConfigExc(b, d, o) = "none"
    THEN Acquire(ConfigDev(b, d, reset_cmd, o), 1)
    ELSE ConfigDev(b, d, reset_cmd, o)

ResetText(b) == IF b = "None" THEN << >> ELSE reset_cmd

-----------------------------------------------------------------------------
(* The class ImpedanceCheck: its public calls *)

NoCall == [name |-> "none", arg |-> 0, status |-> "returned", exc |-> "none",
           by |-> "none", released |-> FALSE, result |-> NaN]

NewCall(name, arg) ==
    [name |-> name, arg |-> arg, status |-> "running", exc |-> "none",
     by |-> "none", released |-> FALSE, result |-> NaN]

Returned(cl) == [cl EXCEPT !.status = "returned"]
Raised(cl, by, exc) == [cl EXCEPT !.status = "raised", !.by = by, !.exc = exc]

\* channel arguments a caller passes: the first two channels, the last one
\* (which index -1 selects), and the two neighbours of the range 1..8
ChArgs == {0, 1, 2, NumChannels, NumChannels + 1}

Init ==
    /\ ch_cfg = [c \in Channels |-> STREAM_CFG_DEFAULT]
    /\ ch_last_cfg = [c \in Channels |-> None]
    /\ board = "None"
    /\ dev = DevInit
    /\ pc = "idle"
    /\ ch = 0
    /\ data = EmptyBuf
    /\ z = NaN
    /\ uVrms = Unbound
    /\ channels = << >>
    /\ idx = 0
    /\ z_list = << >>
    /\ calls = 0
    /\ call = NoCall
    /\ hist = << >>
    /\ sent = << >>

ScriptVars == <<channels, idx, z_list>>

\* prepare_board(): the port is set, so line 240 is not taken
PrepareBoard ==
    /\ pc = "idle" /\ calls < MaxCalls
    /\ \E o \in CallOutcomes :
         LET exc == PrepareExc("BoardShim", dev, o) IN
         /\ board' = "BoardShim"
         /\ dev' = IF exc = "none" THEN [dev EXCEPT !.prepared = TRUE] ELSE dev
         /\ call' = IF exc = "none"
                    THEN Returned(NewCall("prepare_board", 0))
                    ELSE Raised(NewCall("prepare_board", 0),
                                "prepare_session", exc)
    /\ calls' = calls + 1
    /\ sent' = << >>
    /\ UNCHANGED <<ch_cfg, ch_last_cfg, pc, ch, data, z, uVrms, hist>>
    /\ UNCHANGED ScriptVars

\* stop_board(): reset, then release with every exception swallowed
StopBoard ==
    /\ pc = "idle" /\ calls < MaxCalls
    /\ \E o1 \in ConfigOutcomes, o2 \in CallOutcomes :
         LET d1 == reset_to_defaults(board, dev, o1) IN
         dev' = ReleaseDev(board, d1, o2)
    /\ call' = [Returned(NewCall("stop_board", 0)) EXCEPT !.released = TRUE]
    /\ calls' = calls + 1
    /\ sent' = Log(ResetText(board))
    /\ UNCHANGED <<ch_cfg, ch_last_cfg, board, pc, ch, data, z, uVrms, hist>>
    /\ UNCHANGED ScriptVars

\* change_leadoff(c, is_on) called on its own, for an argument c of Args,
\* as one of the first limit calls
ChangeLeadoffOf(Args, limit) ==
    /\ pc = "idle" /\ calls < limit
    /\ \E c \in Args, is_on \in BOOLEAN, o \in ConfigOutcomes :
         LET r == change_leadoff(c, is_on, o) IN
         /\ ch_cfg' = r.cfg
         /\ ch_last_cfg' = r.last
         /\ dev' = r.dev
         /\ hist' = PushHist(HistEntry(c, is_on, r))
         /\ sent' = IF r.text = << >> THEN << >> ELSE <<r.text>>
         /\ call' = IF r.exc = "none"
                    THEN Returned(NewCall("change_leadoff", c))
                    ELSE Raised(NewCall("change_leadoff", c),
                                "change_leadoff", r.exc)
    /\ calls' = calls + 1
    /\ UNCHANGED <<board, pc, ch, data, z, uVrms>>
    /\ UNCHANGED ScriptVars

ChangeLeadoff == ChangeLeadoffOf(ChArgs, MaxCalls)

\* sample counts a measurement window may deliver: none, too few for the
\* filter, enough
SampleCounts == {0, PadLen, PadLen + 1}

\* check_impedance(c) for an argument c of Args, line 279:
\* reset_to_defaults(self.board)
CheckImpedanceOf(Args) ==
    /\ pc = "idle" /\ calls < MaxCalls
    /\ \E c \in Args, o \in ConfigOutcomes :
         /\ ch' = c
         /\ dev' = reset_to_defaults(board, dev, o)
         /\ call' = NewCall("check_impedance", c)
    /\ sent' = IF board = "None" THEN << >> ELSE <<reset_cmd>>
    /\ pc' = "ci_enable"
    /\ calls' = calls + 1
    /\ data' = EmptyBuf
    /\ z' = NaN
    /\ uVrms' = Unbound
    /\ UNCHANGED <<ch_cfg, ch_last_cfg, board, hist>>
    /\ UNCHANGED ScriptVars

CheckImpedance == CheckImpedanceOf(ChArgs)

\* line 280: self.change_leadoff(ch, True)
CI_Enable ==
    /\ pc = "ci_enable"
    /\ \E o \in ConfigOutcomes :
         LET r == change_leadoff(ch, TRUE, o) IN
         /\ ch_cfg' = r.cfg
         /\ ch_last_cfg' = r.last
         /\ dev' = r.dev
         /\ hist' = PushHist(HistEntry(ch, TRUE, r))
         /\ sent' = Log(r.text)
         /\ IF r.exc = "none"
            THEN pc' = "ci_start" /\ call' = call
            ELSE pc' = "idle" /\ call' = Raised(call, "change_leadoff", r.exc)
    /\ UNCHANGED <<board, ch, data, z, uVrms, calls>>
    /\ UNCHANGED ScriptVars

\* line 282: self.board.start_stream()
CI_Start ==
    /\ pc = "ci_start"
    /\ \E o \in CallOutcomes :
         LET exc == StartExc(board, dev, o) IN
         IF exc = "none"
         THEN /\ dev' = [dev EXCEPT !.streaming = TRUE, !.buf = EmptyBuf]
              /\ pc' = "ci_clear" /\ call' = call
         ELSE /\ dev' = dev
              /\ pc' = "idle" /\ call' = Raised(call, "start_stream", exc)
    /\ UNCHANGED <<ch_cfg, ch_last_cfg, board, ch, data, z, uVrms, calls, hist,
                   sent>>
    /\ UNCHANGED ScriptVars

\* line 283: self.board.get_board_data()  # Clear buffer
CI_Clear ==
    /\ pc = "ci_clear"
    /\ \E o \in CallOutcomes :
         LET exc == GetExc(board, dev, o) IN
         IF exc = "none"
         THEN /\ dev' = [dev EXCEPT !.buf = EmptyBuf]
              /\ pc' = "ci_sleep" /\ call' = call
         ELSE /\ dev' = dev
              /\ pc' = "idle" /\ call' = Raised(call, "get_board_data", exc)
    /\ UNCHANGED <<ch_cfg, ch_last_cfg, board, ch, data, z, uVrms, calls, hist,
                   sent>>
    /\ UNCHANGED ScriptVars

\* line 284: time.sleep(self.MEAS_SEC + 0.2)
CI_Sleep ==
    /\ pc = "ci_sleep"
    /\ \E k \in SampleCounts : dev' = Acquire(dev, k)
    /\ pc' = "ci_drain"
    /\ UNCHANGED <<ch_cfg, ch_last_cfg, board, ch, data, z, uVrms, calls, call,
                   hist, sent>>
    /\ UNCHANGED ScriptVars

\* line 286: data = self.board.get_board_data()
CI_Drain ==
    /\ pc = "ci_drain"
    /\ \E o \in CallOutcomes :
         LET exc == GetExc(board, dev, o) IN
         IF exc = "none"
         THEN /\ data' = dev.buf
              /\ dev' = [dev EXCEPT !.buf = EmptyBuf]
              /\ pc' = "ci_process" /\ call' = call
         ELSE /\ data' = data /\ dev' = dev
              /\ pc' = "idle" /\ call' = Raised(call, "get_board_data", exc)
    /\ UNCHANGED <<ch_cfg, ch_last_cfg, board, ch, z, uVrms, calls, hist, sent>>
    /\ UNCHANGED ScriptVars

\* lines 287-298: row, band-pass, RMS of the last second, impedance
CI_Process ==
    /\ pc = "ci_process"
    /\ IF PyIndex(ch - 1) = 0
       THEN /\ pc' = "idle" /\ z' = z /\ uVrms' = uVrms
            /\ call' = Raised(call, "eeg_idxs", "IndexError")
       ELSE IF bandpass_raises(data.n)
       THEN /\ pc' = "idle" /\ z' = z /\ uVrms' = uVrms
            /\ call' = Raised(call, "bandpass_apply", "ValueError")
       ELSE /\ \E v \in RmsValues : uVrms' = v /\ z' = z_of_rms(v)
            /\ pc' = "ci_stop" /\ call' = call
    /\ UNCHANGED <<ch_cfg, ch_last_cfg, board, dev, ch, data, calls, hist,
                   sent>>
    /\ UNCHANGED ScriptVars

\* line 300: self.board.stop_stream()
CI_Stop ==
    /\ pc = "ci_stop"
    /\ \E o \in CallOutcomes :
         LET exc == StopExc(board, dev, o) IN
         IF exc = "none"
         THEN /\ dev' = [dev EXCEPT !.streaming = FALSE]
              /\ pc' = "ci_disable" /\ call' = call
         ELSE /\ dev' = dev
              /\ pc' = "idle" /\ call' = Raised(call, "stop_stream", exc)
    /\ UNCHANGED <<ch_cfg, ch_last_cfg, board, ch, data, z, uVrms, calls, hist,
                   sent>>
    /\ UNCHANGED ScriptVars

\* lines 301-303: self.change_leadoff(ch, False); return z_ohm / 1000.0
\* (the result is kept in milliohm, which is the kilohm value times 10^6)
CI_Disable ==
    /\ pc = "ci_disable"
    /\ \E o \in ConfigOutcomes :
         LET r == change_leadoff(ch, FALSE, o) IN
         /\ ch_cfg' = r.cfg
         /\ ch_last_cfg' = r.last
         /\ dev' = r.dev
         /\ hist' = PushHist(HistEntry(ch, FALSE, r))
         /\ sent' = Log(r.text)
         /\ call' = IF r.exc = "none"
                    THEN [Returned(call) EXCEPT !.result = z]
                    ELSE Raised(call, "change_leadoff", r.exc)
    /\ pc' = "idle"
    /\ UNCHANGED <<board, ch, data, z, uVrms, calls>>
    /\ UNCHANGED ScriptVars

Next ==
    \/ PrepareBoard
    \/ StopBoard
    \/ ChangeLeadoff
    \/ CheckImpedance
    \/ CI_Enable
    \/ CI_Start
    \/ CI_Clear
    \/ CI_Sleep
    \/ CI_Drain
    \/ CI_Process
    \/ CI_Stop
    \/ CI_Disable

Spec == Init /\ [][Next]_vars

-----------------------------------------------------------------------------
(* The script: check_impedance(channels) of cyton_impedance_check.py.py *)

RECURSIVE SeqsUpTo(_, _)
SeqsUpTo(S, n) ==
    IF n = 0 THEN {<< >>}
    ELSE LET shorter == SeqsUpTo(S, n - 1) IN
         shorter \cup {Append(q, x) : q \in shorter, x \in S}

\* the default argument [1,2,3,4,5,6,7,8] and every short list
ChannelLists == {[i \in Channels |-> i]} \cup SeqsUpTo(ChArgs, MaxListLen)

\* the script's reset_to_defaults(board): every exception is swallowed, the
\* sleep after the return statements is never reached
script_reset_to_defaults(b, d, o) == ConfigDev(b, d, reset_cmd, o)

\* lines 102-111: the function is entered once, by line 166 or by a caller
InitScript ==
    /\ ch_cfg = [c \in Channels |-> STREAM_CFG_DEFAULT]
    /\ ch_last_cfg = [c \in Channels |-> None]
    /\ board = "BoardShim"
    /\ dev = DevInit
    /\ pc = "s_prepare"
    /\ ch = 0
    /\ data = EmptyBuf
    /\ z = NaN
    /\ uVrms = Unbound
    /\ channels \in ChannelLists
    /\ idx = 0
    /\ z_list = << >>
    /\ calls = 1
    /\ call = NewCall("check_impedance", 0)
    /\ hist = << >>
    /\ sent = << >>

ClassVars == <<ch_cfg, ch_last_cfg, board, hist, calls, channels>>

\* an exception leaves the try block: the finally clause runs next
Pending(cl, by, exc) == [cl EXCEPT !.by = by, !.exc = exc]

\* one BrainFlow call of the script whose exception, if any, propagates:
\* exc is the exception, d1 the device after the call, next the next line
ScriptStep(by, exc, d1, next) ==
    IF exc = "none"
    THEN dev' = d1 /\ pc' = next /\ call' = call
    ELSE dev' = d1 /\ pc' = "s_finally" /\ call' = Pending(call, by, exc)

\* line 114: board.prepare_session()
S_Prepare ==
    /\ pc = "s_prepare"
    /\ \E o \in CallOutcomes :
         LET exc == PrepareExc(board, dev, o) IN
         ScriptStep("prepare_session", exc,
                    IF exc = "none" THEN [dev EXCEPT !.prepared = TRUE]
                    ELSE dev, "s_start")
    /\ UNCHANGED <<ch, data, z, uVrms, idx, z_list, sent>>
    /\ UNCHANGED ClassVars

\* line 115: board.start_stream()
S_Start ==
    /\ pc = "s_start"
    /\ \E o \in CallOutcomes :
         LET exc == StartExc(board, dev, o) IN
         ScriptStep("start_stream", exc,
                    IF exc = "none"
                    THEN [dev EXCEPT !.streaming = TRUE, !.buf = EmptyBuf]
                    ELSE dev, "s_for")
    /\ UNCHANGED <<ch, data, z, uVrms, idx, z_list, sent>>
    /\ UNCHANGED ClassVars

\* a loop that leaves out the last requested channel
S_ForAllButLast ==
    /\ pc = "s_for"
    /\ IF idx + 1 < Len(channels)
       THEN ch' = channels[idx + 1] /\ pc' = "s_ads"
       ELSE ch' = ch /\ pc' = "s_stop"
    /\ UNCHANGED <<dev, data, z, uVrms, idx, z_list, call, sent>>
    /\ UNCHANGED ClassVars

\* line 119: for ch in channels
S_For ==
    /\ pc = "s_for"
    /\ IF idx < Len(channels)
       THEN ch' = channels[idx + 1] /\ pc' = "s_ads"
       ELSE ch' = ch /\ pc' = "s_stop"
    /\ UNCHANGED <<dev, data, z, uVrms, idx, z_list, call, sent>>
    /\ UNCHANGED ClassVars

\* a command function of the script: config_board(cmd), then a short sleep;
\* no exception is caught
ScriptConfig(by, cmd, o, next) ==
    LET exc == ConfigExc(board, dev, o)
        d1 == ConfigDev(board, dev, cmd, o)
    IN  /\ ScriptStep(by, exc, IF exc = "none" THEN Acquire(d1, 1) ELSE d1,
                      next)
        /\ sent' = Append(sent, cmd)

\* line 120: set_ads_to_impedance_on(board, ch)
S_Ads ==
    /\ pc = "s_ads"
    /\ \E o \in ConfigOutcomes :
         ScriptConfig("set_ads_to_impedance_on", ads_cmd(ch), o, "s_on")
    /\ UNCHANGED <<ch, data, z, uVrms, idx, z_list>>
    /\ UNCHANGED ClassVars

\* line 123: send_leadoff(board, ch, 0, 1)
S_LeadoffOn ==
    /\ pc = "s_on"
    /\ \E o \in ConfigOutcomes :
         ScriptConfig("send_leadoff", leadoff_cmd(ch, 0, 1), o, "s_settle")
    /\ UNCHANGED <<ch, data, z, uVrms, idx, z_list>>
    /\ UNCHANGED ClassVars

\* line 126: time.sleep(SETTLE_SEC)
S_Settle ==
    /\ pc = "s_settle"
    /\ \E k \in SampleCounts : dev' = Acquire(dev, k)
    /\ pc' = "s_clear"
    /\ UNCHANGED <<ch, data, z, uVrms, idx, z_list, call, sent>>
    /\ UNCHANGED ClassVars

\* line 129: board.get_board_data()
S_Clear ==
    /\ pc = "s_clear"
    /\ \E o \in CallOutcomes :
         LET exc == GetExc(board, dev, o) IN
         ScriptStep("get_board_data", exc,
                    IF exc = "none" THEN [dev EXCEPT !.buf = EmptyBuf]
                    ELSE dev, "s_sleep")
    /\ UNCHANGED <<ch, data, z, uVrms, idx, z_list, sent>>
    /\ UNCHANGED ClassVars

\* line 132: time.sleep(MEAS_SEC+0.2)
S_Sleep ==
    /\ pc = "s_sleep"
    /\ \E k \in SampleCounts : dev' = Acquire(dev, k)
    /\ pc' = "s_drain"
    /\ UNCHANGED <<ch, data, z, uVrms, idx, z_list, call, sent>>
    /\ UNCHANGED ClassVars

\* line 133: data = board.get_board_data()
S_Drain ==
    /\ pc = "s_drain"
    /\ \E o \in CallOutcomes :
         LET exc == GetExc(board, dev, o) IN
         /\ ScriptStep("get_board_data", exc,
                       IF exc = "none" THEN [dev EXCEPT !.buf = EmptyBuf]
                       ELSE dev, "s_process")
         /\ data' = IF exc = "none" THEN dev.buf ELSE data
    /\ UNCHANGED <<ch, z, uVrms, idx, z_list, sent>>
    /\ UNCHANGED ClassVars

\* lines 136-146: row, band-pass, RMS, z_kohm, print, z_list.append
\* (z_kohm is kept in milliohm, which is the kilohm value times 10^6)
S_Process ==
    /\ pc = "s_process"
    /\ IF PyIndex(ch - 1) = 0
       THEN /\ pc' = "s_finally" /\ z' = z /\ z_list' = z_list
            /\ uVrms' = uVrms
            /\ call' = Pending(call, "eeg_idxs", "IndexError")
       ELSE IF bandpass_raises(data.n)
       THEN /\ pc' = "s_finally" /\ z' = z /\ z_list' = z_list
            /\ uVrms' = uVrms
            /\ call' = Pending(call, "bandpass_apply", "ValueError")
       ELSE /\ \E v \in RmsValues :
                 /\ uVrms' = v
                 /\ z' = z_of_rms(v)
                 /\ z_list' = Append(z_list, <<ch, z_of_rms(v)>>)
            /\ pc' = "s_off" /\ call' = call
    /\ UNCHANGED <<dev, ch, data, idx, sent>>
    /\ UNCHANGED ClassVars

\* line 149: send_leadoff(board, ch, 0, 0); the loop body ends
S_LeadoffOff ==
    /\ pc = "s_off"
    /\ \E o \in ConfigOutcomes :
         /\ ScriptConfig("send_leadoff", leadoff_cmd(ch, 0, 0), o, "s_for")
         /\ idx' = IF ConfigExc(board, dev, o) = "none" THEN idx + 1 ELSE idx
    /\ UNCHANGED <<ch, data, z, uVrms, z_list>>
    /\ UNCHANGED ClassVars

\* line 151: board.stop_stream()
S_Stop ==
    /\ pc = "s_stop"
    /\ \E o \in CallOutcomes :
         LET exc == StopExc(board, dev, o) IN
         ScriptStep("stop_stream", exc,
                    IF exc = "none" THEN [dev EXCEPT !.streaming = FALSE]
                    ELSE dev, "s_reset")
    /\ UNCHANGED <<ch, data, z, uVrms, idx, z_list, sent>>
    /\ UNCHANGED ClassVars

\* lines 154-156: reset_to_defaults(board); return z_list
S_Reset ==
    /\ pc = "s_reset"
    /\ \E o \in ConfigOutcomes : dev' = script_reset_to_defaults(board, dev, o)
    /\ sent' = Append(sent, reset_cmd)
    /\ pc' = "s_finally"
    /\ UNCHANGED <<ch, data, z, uVrms, idx, z_list, call>>
    /\ UNCHANGED ClassVars

\* lines 158-162: finally: release_session() with every exception swallowed;
\* then the function returns z_list or the pending exception propagates
S_Finally ==
    /\ pc = "s_finally"
    /\ \E o \in CallOutcomes : dev' = ReleaseDev(board, dev, o)
    /\ call' = [call EXCEPT !.released = TRUE,
                            !.status = IF call.exc = "none" THEN "returned"
                                       ELSE "raised"]
    /\ pc' = "idle"
    /\ UNCHANGED <<ch, data, z, uVrms, idx, z_list, sent>>
    /\ UNCHANGED ClassVars

NextScript ==
    \/ S_Prepare
    \/ S_Start
    \/ S_For
    \/ S_Ads
    \/ S_LeadoffOn
    \/ S_Settle
    \/ S_Clear
    \/ S_Sleep
    \/ S_Drain
    \/ S_Process
    \/ S_LeadoffOff
    \/ S_Stop
    \/ S_Reset
    \/ S_Finally

SpecScript == InitScript /\ [][NextScript]_vars

-----------------------------------------------------------------------------
(* Measuring on a prepared board: prepare_board() has returned and the    *)
(* caller makes check_impedance calls for channels of 1..8, catching what   *)
(* they raise                                                              *)

InitMeasure ==
    /\ ch_cfg = [c \in Channels |-> STREAM_CFG_DEFAULT]
    /\ ch_last_cfg = [c \in Channels |-> None]
    /\ board = "BoardShim"
    /\ dev = [DevInit EXCEPT !.prepared = TRUE]
    /\ pc = "idle"
    /\ ch = 0
    /\ data = EmptyBuf
    /\ z = NaN
    /\ uVrms = Unbound
    /\ channels = << >>
    /\ idx = 0
    /\ z_list = << >>
    /\ calls = 1
    /\ call = Returned(NewCall("prepare_board", 0))
    /\ hist = << >>
    /\ sent = << >>

MeasureChannel == CheckImpedanceOf(ChArgs \cap Channels)

NextMeasure ==
    \/ MeasureChannel
    \/ CI_Enable
    \/ CI_Start
    \/ CI_Clear
    \/ CI_Sleep
    \/ CI_Drain
    \/ CI_Process
    \/ CI_Stop
    \/ CI_Disable

SpecMeasure == InitMeasure /\ [][NextMeasure]_vars

(* The tracker alone: on a prepared board the caller makes change_leadoff  *)
(* calls for channels of 1..8.  Five executions take a channel through     *)
(* every state it can be in and through a round trip from there:           *)
(* (current, saved) is (default, None) after construction, (IMP, default)  *)
(* after an enable, (IMP, IMP) after a second enable and (IMP, None) after *)
(* the disable that follows it.                                            *)

TrackerCalls == MaxCalls + 3

TrackerCall == ChangeLeadoffOf(ChArgs \cap Channels, TrackerCalls)

NextTracker == TrackerCall

SpecTracker == InitMeasure /\ [][NextTracker]_vars

(* calc_impedance_from_vrms on its own: a caller passes an RMS voltage     *)
(* [uV], negative or positive, from below the value at which the raw       *)
(* impedance crosses 0 (9.33 uV) to well above it                          *)

CalcInputs == (-2 * MaxRms)..(8 * MaxRms)

InitCalc ==
    /\ ch_cfg = [c \in Channels |-> STREAM_CFG_DEFAULT]
    /\ ch_last_cfg = [c \in Channels |-> None]
    /\ board = "None"
    /\ dev = DevInit
    /\ pc = "calc"
    /\ ch = 0
    /\ data = EmptyBuf
    /\ z = NaN
    /\ uVrms \in CalcInputs
    /\ channels = << >>
    /\ idx = 0
    /\ z_list = << >>
    /\ calls = 1
    /\ call = NewCall("calc_impedance_from_vrms", 0)
    /\ hist = << >>
    /\ sent = << >>

\* lines 160-163: the call computes Z and returns max(Z, 0.0)
Calc ==
    /\ pc = "calc"
    /\ z' = calc_impedance_from_vrms(uVrms)
    /\ call' = Returned(call)
    /\ pc' = "idle"
    /\ UNCHANGED <<ch_cfg, ch_last_cfg, board, dev, ch, data, uVrms, calls,
                   hist, sent>>
    /\ UNCHANGED ScriptVars

NextCalc == Calc

SpecCalc == InitCalc /\ [][NextCalc]_vars

-----------------------------------------------------------------------------
(* Properties *)

Populated == {c \in Channels : ch_last_cfg[c] # None}

LastExec == hist[Len(hist)]

\* the last two change_leadoff executions were enable(c), disable(c) for a
\* channel c in 1..8
RoundTripDone ==
    /\ Len(hist) = 2
    /\ hist[1].op = "enable" /\ hist[2].op = "disable"
    /\ hist[1].arg = hist[2].arg
    /\ hist[1].arg \in Channels

\* channel c is as it was before the enable of the round trip
AsBeforeEnable(c) ==
    /\ ch_cfg[c] = hist[1].cfg[c]
    /\ ch_last_cfg[c] = hist[1].last[c]

\* the script was asked for channels of 1..8 only
ValidRun == \A i \in 1..Len(channels) : channels[i] \in Channels

\* the script's run raised in a channel's cycle after the lead-off enable of
\* that cycle had been sent
RaisedAfterEnable ==
    /\ call.status = "raised"
    /\ \/ call.by \in {"get_board_data", "eeg_idxs", "bandpass_apply"}
       \/ /\ call.by = "send_leadoff"
          /\ sent[Len(sent)] = leadoff_cmd(ch, 0, 0)

ResetSent == \E i \in 1..Len(sent) : sent[i] = reset_cmd

\* S_Process has acted on the drained data of the current channel
Processed ==
    \/ pc = "s_off"
    \/ pc \in {"s_finally", "idle"} /\ call.by = "bandpass_apply"

\* C1: while check_impedance calls measure channels one after another
\* (calls that raise included), at most one channel has a populated saved
\* configuration and at most one channel has its lead-off current on: no
\* enable is sent for a channel while another one is still enabled.
C1_MutualExclusion ==
    /\ Cardinality(Populated) <= 1
    /\ Cardinality(ActiveLeadOff(dev)) <= 1

\* C2 (as claimed): change_leadoff(c, True) followed by
\* change_leadoff(c, False) leaves channel c (current and saved) as it was
\* before the enable, whatever the state before the enable, saved populated
\* or not.
C2_RoundTripAnyState ==
    RoundTripDone => AsBeforeEnable(hist[1].arg)

\* C2 (amended): change_leadoff(c, True) followed by change_leadoff(c,
\* False) leaves channel c (current and saved) as it was before the enable,
\* for every current configuration, when saved was empty before the enable.
C2_RoundTripFromEmptySaved ==
    (RoundTripDone /\ hist[1].last[hist[1].arg] = None)
        => AsBeforeEnable(hist[1].arg)

\* a round trip on a channel whose current configuration was not the default
\* and whose saved slot was empty
C2_Witness ==
    /\ RoundTripDone
    /\ hist[1].last[hist[1].arg] = None
    /\ hist[1].cfg[hist[1].arg] = IMP_CFG
    /\ hist[2].last[hist[1].arg] = <<IMP_CFG>>

\* C3: a channel's saved configuration is populated exactly when the channel
\* is in lead-off mode: its current configuration is IMP_CFG and its
\* lead-off current is on at the device.
C3_SavedIffLeadOff ==
    \A c \in Channels :
        (ch_last_cfg[c] # None)
            <=> (ch_cfg[c] = IMP_CFG /\ c \in ActiveLeadOff(dev))

\* C4: when the run hands control back, having completed or having raised
\* after a lead-off enable, the reset command 'd' has been sent and the
\* session release has been called.
C4_TeardownAlways ==
    (pc = "idle" /\ ValidRun
       /\ (call.status = "returned" \/ RaisedAfterEnable))
        => (ResetSent /\ call.released)

\* C5: after a run over channels 1..8 has returned, every saved
\* configuration is empty and every current configuration, the tracker's and
\* the device's, is the streaming default.
C5_DefaultsAfterFullRun ==
    (pc = "idle" /\ call.status = "returned"
       /\ channels = [i \in Channels |-> i])
        => \A c \in Channels :
             /\ ch_last_cfg[c] = None
             /\ ch_cfg[c] = STREAM_CFG_DEFAULT
             /\ dev.cfg[c] = DevDefaultCfg

\* C6: an enable on a channel whose saved configuration is populated fails
\* (the call raises) and leaves the channel's current and saved
\* configuration as they were: the saved pre-measurement configuration is
\* not overwritten.
C6_DoubleEnableRejected ==
    (/\ Len(hist) > 0
     /\ LastExec.op = "enable"
     /\ LastExec.arg \in Channels
     /\ LastExec.last[LastExec.arg] # None)
        => /\ call.status = "raised"
           /\ ch_cfg[LastExec.arg] = LastExec.cfg[LastExec.arg]
           /\ ch_last_cfg[LastExec.arg] = LastExec.last[LastExec.arg]

\* C7: a change_leadoff call with a channel outside 1..8 fails (the call
\* raises) before any command is sent and leaves all eight channels
\* unchanged.
C7_OutOfRangeRejected ==
    (/\ Len(hist) > 0
     /\ call.name = "change_leadoff"
     /\ LastExec.arg \notin Channels)
        => /\ call.status = "raised"
           /\ sent = << >>
           /\ ch_cfg = LastExec.cfg
           /\ ch_last_cfg = LastExec.last

\* C8: when the drained buffer is too short for the band-pass filter, the
\* channel's result is recorded as NaN and no exception leaves the cycle.
C8_InsufficientSamplesIsNaN ==
    (ValidRun /\ Processed /\ bandpass_raises(data.n))
        => /\ call.exc = "none"
           /\ Len(z_list) > 0
           /\ z_list[Len(z_list)] = <<ch, NaN>>

\* C9: a response-decode failure of a channel-configuration or lead-off
\* command never aborts the channel's cycle.
C9_DecodeFailureTolerated ==
    (ValidRun /\ call.by \in {"set_ads_to_impedance_on", "send_leadoff",
                              "change_leadoff"})
        => call.exc # "UnicodeDecodeError"

\* C10: when a session-level operation (prepare, start stream, stop stream)
\* has failed and the failure has reached the caller, a session release has
\* been attempted.
C10_ReleaseOnSessionFailure ==
    (call.status = "raised"
       /\ call.by \in {"prepare_session", "start_stream", "stop_stream"})
        => call.released

\* the channel and the result of the entry appended to z_list last
LastResult == z_list[Len(z_list)]

\* C11: when the RMS estimate of a channel is non-finite, the entry recorded
\* for that channel is NaN (not a computed 0), the estimate raises nothing,
\* and the cycle goes on to send the lead-off disable of that channel: while
\* the cycle is open the disable is the next statement or the statement that
\* has just been sent, afterwards it is the third command of that cycle.
C11_NonFiniteIsNaN ==
    (uVrms = NaN) =>
        /\ Len(z_list) > 0
        /\ LastResult[2] = NaN
        /\ IF Len(z_list) = idx + 1
           THEN \/ pc = "s_off" /\ call.exc = "none" /\ LastResult[1] = ch
                \/ /\ pc \in {"s_finally", "idle"}
                   /\ call.by = "send_leadoff"
                   /\ sent[Len(sent)] = leadoff_cmd(LastResult[1], 0, 0)
           ELSE sent[3 * Len(z_list)] = leadoff_cmd(LastResult[1], 0, 0)

\* a run that returned after a non-finite estimate on its second channel
C11_Witness ==
    /\ pc = "idle" /\ call.status = "returned"
    /\ uVrms = NaN
    /\ Len(z_list) = 2
    /\ LastResult = <<channels[2], NaN>>

\* C12: a run that returns has recorded exactly one result per requested
\* channel, in the requested order, each tagged with the requested channel;
\* for channels of 1..8 the row the result was computed from is the row of
\* the tagged channel.
C12_OneResultPerChannelInOrder ==
    (pc = "idle" /\ call.status = "returned") =>
        /\ Len(z_list) = Len(channels)
        /\ \A i \in 1..Len(z_list) :
             /\ z_list[i][1] = channels[i]
             /\ channels[i] \in Channels
                  => PyIndex(channels[i] - 1) = z_list[i][1]

\* a run over two different channels in descending order has returned
C12_Witness ==
    /\ pc = "idle" /\ call.status = "returned"
    /\ channels = <<2, 1>>
    /\ Len(z_list) = 2
    /\ z_list[1][1] = 2 /\ z_list[2][1] = 1

\* the p and n characters of a rendered lead-off command z{ch}{p}{n}Z
P_of(cmd) == cmd[Len(cmd) - 2]
N_of(cmd) == cmd[Len(cmd) - 1]

\* the lead-off frames inside the commands sent: <<p, n>> of every 'z'
LeadOffPN(cmd) ==
    {<<cmd[j + 2], cmd[j + 3]>> : j \in {k \in 1..Len(cmd) : cmd[k] = "z"}}

SentLeadOffPN == UNION {LeadOffPN(sent[i]) : i \in 1..Len(sent)}

\* C13: for every channel 1..8 the lead-off command built with active =
\* false has p = '0' and n = '0' whatever is_n is, and the one built with
\* active = true and is_n = true has p = '0' and n = '1'; every lead-off
\* frame the program has sent has p = '0', and no channel of the device has
\* its P-side lead-off current on.
C13_LeadOffRendering ==
    /\ \A c \in Channels, t \in BOOLEAN :
         /\ P_of(build_impedance_cmd(c, FALSE, t)) = "0"
         /\ N_of(build_impedance_cmd(c, FALSE, t)) = "0"
    /\ \A c \in Channels :
         /\ P_of(build_impedance_cmd(c, TRUE, TRUE)) = "0"
         /\ N_of(build_impedance_cmd(c, TRUE, TRUE)) = "1"
    /\ \A f \in SentLeadOffPN : f[1] = "0"
    /\ \A c \in Channels : dev.lo[c].p = 0

\* an enable has been sent and the device drives the N input of channel 1
C13_Witness ==
    /\ <<"0", "1">> \in SentLeadOffPN
    /\ dev.lo[1] = [p |-> 0, n |-> 1]

\* the raw value sqrt(2) * Vrms / I_drive - R_series of v is negative
RawNegative(v) == 1414214 * v < I_DRIVE_nA * SERIES_R * 1000

\* C14: the value calc_impedance_from_vrms returns is never below 0, is 0
\* for every input whose raw value is negative, and is not below the result
\* of any smaller input nor above the result of any larger one.
C14_FlooredAndMonotone ==
    (pc = "idle" /\ call.name = "calc_impedance_from_vrms") =>
        /\ z >= 0
        /\ RawNegative(uVrms) => z = 0
        /\ \A a \in CalcInputs :
             /\ a <= uVrms => calc_impedance_from_vrms(a) <= z
             /\ uVrms <= a => z <= calc_impedance_from_vrms(a)

\* the call has returned a positive impedance for an input just above the
\* zero crossing, with smaller inputs that are floored to 0
C14_Witness ==
    /\ pc = "idle" /\ call.name = "calc_impedance_from_vrms"
    /\ uVrms = MaxRms /\ z > 0
    /\ \E a \in CalcInputs : 0 < a /\ a < uVrms /\ RawNegative(a)

\* C15: the samples a channel's cycle drains for processing were all
\* acquired while the target channel, and no other channel, had its lead-off
\* current on: the buffer was cleared after the enable, so none predate it
\* and none belong to another channel's measurement.
C15_SamplesFromTargetOnly ==
    (pc \in {"ci_process", "s_process"} /\ ch \in Channels)
        => data.tags \subseteq {{ch}}

\* the channel-settings command that writes the streaming default to c
restore_cmd(c) ==
    build_channel_settings_cmd(c, STREAM_CFG_DEFAULT.gain,
                               STREAM_CFG_DEFAULT.input_type,
                               STREAM_CFG_DEFAULT.bias,
                               STREAM_CFG_DEFAULT.srb2,
                               STREAM_CFG_DEFAULT.srb1, 0)

\* C16: while the channel after channel N is being measured, a command
\* restoring channel N's pre-measurement settings has been sent and the
\* device holds those settings, not the impedance-measurement ones, for
\* channel N.
C16_RestoredBeforeNextEnable ==
    (/\ ValidRun
     /\ idx >= 1
     /\ pc \in {"s_settle", "s_clear", "s_sleep", "s_drain", "s_process"}
     /\ channels[idx] # ch)
        => /\ \E i \in 1..Len(sent) : sent[i] = restore_cmd(channels[idx])
           /\ dev.cfg[channels[idx]] = DevDefaultCfg

\* C17: a disable on a channel c of 1..8 is never rejected, and whatever
\* the board does with the command the tracker afterwards has saved empty
\* for c and current equal to the configuration that was saved before, or
\* to the streaming default when nothing was saved; the call raises only
\* when the board call itself fails.
C17_DisableAlwaysApplies ==
    (/\ Len(hist) > 0
     /\ LastExec.op = "disable"
     /\ LastExec.arg \in Channels)
        => LET c == LastExec.arg IN
           /\ ~LastExec.rejected
           /\ ch_last_cfg[c] = None
           /\ ch_cfg[c] = IF LastExec.last[c] # None
                          THEN LastExec.last[c][1]
                          ELSE STREAM_CFG_DEFAULT
           /\ (call.name = "change_leadoff" /\ call.status = "raised")
                => call.exc \in {"BrainFlowError", "AttributeError"}

\* a disable on a channel with nothing saved whose current configuration
\* was the impedance-measurement one: it falls back to the default
C17_Witness ==
    /\ Len(hist) > 0
    /\ LastExec.op = "disable"
    /\ LastExec.last[LastExec.arg] = None
    /\ LastExec.cfg[LastExec.arg] = IMP_CFG
    /\ ch_cfg[LastExec.arg] = STREAM_CFG_DEFAULT
    /\ call.status = "returned"

\* the device has executed a board-wide reset and nothing after it
DeviceAtDefaults ==
    /\ \A c \in Channels : dev.cfg[c] = DevDefaultCfg
    /\ ActiveLeadOff(dev) = {}

\* C18: the configuration the tracker records as current for a channel is
\* the configuration the device holds for it, also after a call that
\* failed partway; and when the device is at its reset state no channel of
\* the tracker holds a non-default current or a saved configuration.
C18_TrackerMatchesDevice ==
    /\ \A c \in Channels : ch_cfg[c] = TrackerView(dev.cfg[c])
    /\ DeviceAtDefaults =>
         \A c \in Channels :
             ch_cfg[c] = STREAM_CFG_DEFAULT /\ ch_last_cfg[c] = None

\* the channel characters of the frames in a command: what follows each
\* 'x' and each 'z'
NamedChannels(cmd) ==
    {cmd[j + 1] : j \in {k \in 1..Len(cmd) : cmd[k] \in {"x", "z"}}}

\* C19: a change_leadoff call on a channel c of 1..8, enable or disable,
\* leaves the current and the saved configuration of every other channel as
\* they were before the call, and every frame of the command it sends names
\* channel c.
C19_OnlyTargetChannelChanges ==
    (/\ Len(hist) > 0
     /\ call.name = "change_leadoff"
     /\ LastExec.arg \in Channels)
        => LET c == LastExec.arg IN
           /\ \A d \in Channels \ {c} :
                /\ ch_cfg[d] = LastExec.cfg[d]
                /\ ch_last_cfg[d] = LastExec.last[d]
           /\ Len(sent) <= 1
           /\ \A i \in 1..Len(sent) :
                NamedChannels(sent[i]) = {DigitChars[c + 1]}

\* an enable of channel 2 while channel 1 is enabled and channel 8 is not
C19_Witness ==
    /\ Len(hist) > 0
    /\ call.name = "change_leadoff"
    /\ LastExec.op = "enable" /\ LastExec.arg = 2
    /\ Len(sent) = 1
    /\ ch_cfg[1] = IMP_CFG /\ ch_last_cfg[1] = <<STREAM_CFG_DEFAULT>>
    /\ ch_cfg[2] = IMP_CFG /\ ch_last_cfg[2] = <<STREAM_CFG_DEFAULT>>
    /\ ch_cfg[NumChannels] = STREAM_CFG_DEFAULT
    /\ ch_last_cfg[NumChannels] = None

\* C20: across check_impedance calls on a prepared board, calls that raise
\* included, the stream is not running when a call has returned or raised,
\* and it is not running when a call reaches start_stream.
C20_StreamNeverLeftRunning ==
    /\ pc = "idle" => ~dev.streaming
    /\ pc = "ci_start" => ~dev.streaming

====
